---------------------------- MODULE Spec2Model ----------------------------
(***************************************************************************)
(* The expiring cache of internal/pokecache (Cache, Add, Get, reapLoop,    *)
(* reap) with its callers and its background reaper goroutine.             *)
(*                                                                         *)
(* Go byte slices are references: a slice is modelled as the id of its     *)
(* backing array and `heap` gives each array's bytes.  The sync.Mutex is   *)
(* one boolean, and every statement of a method that touches the mutex or  *)
(* the map is one step, so that steps of different goroutines interleave   *)
(* wherever the scheduler can interleave them.  The clock is an integer    *)
(* that every time.Now() / time.Since() reads.                             *)
(***************************************************************************)
EXTENDS Integers, Sequences, FiniteSets, TLC

\* ---------------------------------------------------------------- bounds
NumCallers == 2
MaxBufs == 4
MaxByte == 2
MaxInterval == 2
\* the clock stops at MaxTime, and at MaxTimeOnSchedule where every sweep is
\* on schedule
MaxTime == 3
MaxTimeOnSchedule == 5

\* TestReap of cache_test.go: NewCache(8 * time.Second), time.Sleep(9 * time.Second)
TestInterval == 8
TestSleep == 9

Callers == 1..NumCallers
KeySeq == <<"", "test">>
Keys == {KeySeq[i] : i \in 1..Len(KeySeq)}
Nil == 0
BufIds == 1..MaxBufs
Bytes == 1..MaxByte
\* The cache never looks inside data: the empty slice and the slices of one
\* byte stand for all byte sequences.
Contents == {<<>>} \cup {<<b>> : b \in Bytes}
Intervals == 1..MaxInterval

VARIABLES
  now,       \* the clock read by time.Now() and time.Since()
  interval,  \* the argument of NewCache, passed on to reapLoop and reap
  cache,     \* Cache.cache: a map from key to cacheEntry
  mu,        \* Cache.mu: TRUE while the mutex is locked
  heap,      \* the bytes of each backing array
  pc,        \* each caller's position in Add or Get
  key,       \* each caller's key argument
  slice,     \* the byte slice each caller holds and passes to Add
  ret,       \* what each caller's last call returned
  rpc,       \* the reaper goroutine's position in reapLoop / reap
  todo,      \* the keys the range loop of reap has still to visit
  nextTick,  \* the time at which the ticker sends next
  tickC,     \* the number of ticks buffered in ticker.C (capacity 1)
  added,     \* history: per key, the latest Add that returned nil (its bytes and
             \* its time), or that a sweep has deleted the key since, or neither
  nextLocationURL,  \* config.nextLocationURL: a *string
  prevLocationURL,  \* config.prevLocationURL: a *string
  lastShown, \* history: the page the last successful map printed, 0 if none
  cmdRet,    \* what the command callback called last returned: nil or an error
  locationName,  \* GetLocationByName: its argument
  pageURL,   \* GetLocationByName: its local pageURL, a *string
  visited,   \* history: the pages the running GetLocationByName has scanned
  located,   \* what GetLocationByName returned, or that it is running
  rpl,       \* startRepl: its position in the loop
  line,      \* startRepl: the line read last, reader.Text()
  command,   \* startRepl: words[0] of the command that is run
  args,      \* startRepl: words[1:]
  printed    \* what the loop printed last about the line it read

vars == <<now, interval, cache, mu, heap, pc, key, slice, ret, rpc, todo,
          nextTick, tickC, added, nextLocationURL, prevLocationURL, lastShown,
          cmdRet, locationName, pageURL, visited, located,
          rpl, line, command, args, printed>>

callerVars == <<pc, key, slice, ret>>
reaperVars == <<rpc, todo, nextTick, tickC>>
locateVars == <<locationName, pageURL, visited, located>>
loopVars == <<rpl, line, command, args, printed>>
replVars == <<nextLocationURL, prevLocationURL, lastShown, cmdRet, locateVars, loopVars>>

\* ------------------------------------------------------------ data model
\* cacheEntry{data, createdAt}
cacheEntry(d, t) == [data |-> d, createdAt |-> t]

\* the bytes a slice denotes; a nil slice has none
Content(h, b) == IF b = Nil THEN <<>> ELSE h[b]

NoRet == [op |-> "none", key |-> "", ok |-> FALSE, data |-> Nil]

NeverAdded == [st |-> "never", val |-> <<>>, at |-> 0]
SweptAway == [st |-> "swept", val |-> <<>>, at |-> 0]
AddedAt(v, t) == [st |-> "live", val |-> v, at |-> t]

\* the backing arrays something still refers to
Live(c, s, r) ==
  ({c[k].data : k \in DOMAIN c} \cup {s[p] : p \in Callers}
     \cup {r[p].data : p \in Callers}) \ {Nil}

\* ------------------------------------------------- the bodies of the methods
\* (mutant) Add without its exists check: every Add overwrites
AddExistsNever(c, k) == FALSE

\* (mutant) Add rejects the empty key as if it were taken
AddExistsEmptyKey(c, k) == k = "" \/ k \in DOMAIN c

\* (mutant) Add takes a stale entry for an absent one and stores over it
AddExistsFreshOnly(c, k) == k \in DOMAIN c /\ now - c[k].createdAt <= interval

\* (mutant) Add takes an entry without bytes for an absent one and replaces it
AddExistsNonEmpty(c, k) == k \in DOMAIN c /\ Content(heap, c[k].data) # <<>>

\* Add, line 13: the exists check
AddExists(c, k) == k \in DOMAIN c

\* (mutant) the insert forgets the data field of the entry
AddInsertNoData(c, k, v, t) ==
  [x \in DOMAIN c \cup {k} |-> IF x = k THEN cacheEntry(Nil, t) ELSE c[x]]

\* (mutant) the insert stamps the entry with its expiry time, not its creation
AddInsertExpiry(c, k, v, t) ==
  [x \in DOMAIN c \cup {k} |-> IF x = k THEN cacheEntry(v, t + interval) ELSE c[x]]

\* Add, lines 18-21: the insert of a new entry stamped with time.Now()
AddInsert(c, k, v, t) ==
  [x \in DOMAIN c \cup {k} |-> IF x = k THEN cacheEntry(v, t) ELSE c[x]]

\* (mutant) Get ignores the ok of the map lookup and reports every key found
GetResultAlwaysFound(c, k) ==
  [found |-> TRUE, data |-> IF k \in DOMAIN c THEN c[k].data ELSE Nil]

\* (mutant) Get checks the age and reports a stale entry as not found
GetResultFreshOnly(c, k) ==
  IF k \in DOMAIN c /\ now - c[k].createdAt <= interval
    THEN [found |-> TRUE, data |-> c[k].data]
    ELSE [found |-> FALSE, data |-> Nil]

\* Get, lines 30-34: the lookup and the value returned
GetResult(c, k) ==
  IF k \in DOMAIN c THEN [found |-> TRUE, data |-> c[k].data]
  ELSE [found |-> FALSE, data |-> Nil]

\* (mutant) reap compares the age with twice the interval
IsStaleDoubled(e, t, iv) == t - e.createdAt > 2 * iv

\* (mutant) reap deletes an entry as soon as its age reaches the interval
IsStaleAtInterval(e, t, iv) == t - e.createdAt >= iv

\* reap, line 53: the staleness test
IsStale(e, t, iv) == t - e.createdAt > iv

\* reap, line 54: delete(c.cache, key)
MapDelete(c, k) == [x \in DOMAIN c \ {k} |-> c[x]]

\* ------------------------------------------------------------------ Init
\* NewCache: an empty map, an unlocked mutex, and `go c.reapLoop(interval)`
NewCache(iv) ==
  /\ now = 0
  /\ interval = iv
  /\ cache = << >>
  /\ mu = FALSE
  /\ heap = [b \in BufIds |-> <<>>]
  /\ pc = [p \in Callers |-> "idle"]
  /\ key = [p \in Callers |-> ""]
  /\ slice = [p \in Callers |-> Nil]
  /\ ret = [p \in Callers |-> NoRet]
  /\ rpc = "start"
  /\ todo = {}
  /\ nextTick = 0
  /\ tickC = 0
  /\ added = [k \in Keys |-> NeverAdded]

\* a *string: nil, or a pointer to a string
NilPtr == [nil |-> TRUE, val |-> ""]
Ptr(str) == [nil |-> FALSE, val |-> str]

\* main: cfg := &config{pokeapiClient: pokeClient}, the locators are nil
NoLocation == [Name |-> "", URL |-> ""]

NewConfig ==
  /\ nextLocationURL = NilPtr
  /\ prevLocationURL = NilPtr
  /\ lastShown = 0
  /\ cmdRet = "none"
  /\ locationName = ""
  /\ pageURL = NilPtr
  /\ visited = << >>
  /\ located = [st |-> "none", loc |-> NoLocation]
  /\ rpl = "prompt"
  /\ line = << >>
  /\ command = ""
  /\ args = << >>
  /\ printed = << >>

Init == \E iv \in Intervals : NewCache(iv) /\ NewConfig

\* --------------------------------------------------------------- callers
\* the bytes of a backing array nothing refers to any more are collected
Collect(h, c, s, r) ==
  [b \in BufIds |-> IF b \in Live(c, s, r) THEN h[b] ELSE <<>>]

\* the backing array a new slice gets: any array nothing refers to; which one
\* cannot be observed, so the choice is a fixed one (by the key it is made for)
NewArray(c, s, r, k) ==
  LET free == BufIds \ Live(c, s, r)
      pref == CHOOSE i \in 1..Len(KeySeq) : KeySeq[i] = k
  IN IF free = {} THEN Nil
     ELSE IF pref \in free THEN pref
     ELSE CHOOSE x \in free : \A y \in free : x <= y

\* (mutant) Add does not take the mutex
AddLockNoMutex(p) ==
  /\ pc[p] = "idle"
  /\ slice[p] = Nil
  /\ mu' = TRUE
  /\ \E k \in Keys, v \in Contents :
       LET b == NewArray(cache, slice, ret, k)
       IN /\ b # Nil
          /\ slice' = [slice EXCEPT ![p] = b]
          /\ heap' = [heap EXCEPT ![b] = v]
          /\ key' = [key EXCEPT ![p] = k]
  /\ pc' = [pc EXCEPT ![p] = "add_check"]
  /\ UNCHANGED <<replVars, now, interval, cache, ret, reaperVars, added>>

\* the caller makes a byte slice, as []byte("test") or io.ReadAll do, calls
\* c.Add(key, value), and Add, line 10: c.mu.Lock()
AddLock(p) ==
  /\ pc[p] = "idle"
  /\ slice[p] = Nil
  /\ mu = FALSE
  /\ mu' = TRUE
  /\ \E k \in Keys, v \in Contents :
       LET b == NewArray(cache, slice, ret, k)
       IN /\ b # Nil
          /\ slice' = [slice EXCEPT ![p] = b]
          /\ heap' = [heap EXCEPT ![b] = v]
          /\ key' = [key EXCEPT ![p] = k]
  /\ pc' = [pc EXCEPT ![p] = "add_check"]
  /\ UNCHANGED <<replVars, now, interval, cache, ret, reaperVars, added>>

\* (mutant) check-then-act in two critical sections: Add unlocks after the
\* exists check and stores without the mutex
AddCheckUnlocksEarly(p) ==
  /\ pc[p] = "add_check"
  /\ IF AddExists(cache, key[p])
       THEN /\ ret' = [ret EXCEPT ![p] =
                         [op |-> "add", key |-> key[p], ok |-> FALSE, data |-> Nil]]
            /\ pc' = [pc EXCEPT ![p] = "add_unlock"]
            /\ mu' = mu
       ELSE /\ pc' = [pc EXCEPT ![p] = "add_store"]
            /\ ret' = ret
            /\ mu' = FALSE
  /\ UNCHANGED <<replVars, now, interval, cache, heap, key, slice, reaperVars, added>>

\* (mutant) Add without `defer`: the AlreadyExists path returns with the mutex
\* still locked
AddCheckReturnsLocked(p) ==
  /\ pc[p] = "add_check"
  /\ IF AddExists(cache, key[p])
       THEN /\ ret' = [ret EXCEPT ![p] = NoRet]
            /\ pc' = [pc EXCEPT ![p] = "idle"]
            /\ key' = [key EXCEPT ![p] = ""]
            /\ slice' = [slice EXCEPT ![p] = Nil]
       ELSE /\ pc' = [pc EXCEPT ![p] = "add_store"]
            /\ UNCHANGED <<ret, key, slice>>
  /\ heap' = Collect(heap, cache, slice', ret')
  /\ UNCHANGED <<replVars, now, interval, cache, mu, reaperVars, added>>

\* Add, lines 13-15: the key exists, return the error
AddCheck(p) ==
  /\ pc[p] = "add_check"
  /\ IF AddExists(cache, key[p])
       THEN /\ ret' = [ret EXCEPT ![p] =
                         [op |-> "add", key |-> key[p], ok |-> FALSE, data |-> Nil]]
            /\ pc' = [pc EXCEPT ![p] = "add_unlock"]
       ELSE /\ pc' = [pc EXCEPT ![p] = "add_store"]
            /\ ret' = ret
  /\ UNCHANGED <<replVars, now, interval, cache, mu, heap, key, slice, reaperVars, added>>

\* Add, lines 18-22: store the entry, return nil
AddStore(p) ==
  /\ pc[p] = "add_store"
  /\ cache' = AddInsert(cache, key[p], slice[p], now)
  /\ ret' = [ret EXCEPT ![p] =
               [op |-> "add", key |-> key[p], ok |-> TRUE, data |-> Nil]]
  /\ pc' = [pc EXCEPT ![p] = "add_unlock"]
  /\ added' = [added EXCEPT ![key[p]] = AddedAt(Content(heap, slice[p]), now)]
  /\ UNCHANGED <<replVars, now, interval, mu, heap, key, slice, reaperVars>>

\* Add, line 11: the deferred c.mu.Unlock(), and the return to a caller that
\* does not use its slice again (ListLocations, GetAreaDetails, the tests)
AddUnlock(p) ==
  /\ pc[p] = "add_unlock"
  /\ mu' = FALSE
  /\ pc' = [pc EXCEPT ![p] = "idle"]
  /\ key' = [key EXCEPT ![p] = ""]
  /\ ret' = [ret EXCEPT ![p] = NoRet]
  /\ slice' = [slice EXCEPT ![p] = Nil]
  /\ heap' = Collect(heap, cache, slice', ret')
  /\ UNCHANGED <<replVars, now, interval, cache, reaperVars, added>>

\* the call c.Get(key) and Get, line 27: c.mu.Lock()
GetLock(p) ==
  /\ pc[p] = "idle"
  /\ mu = FALSE
  /\ mu' = TRUE
  /\ \E k \in Keys : key' = [key EXCEPT ![p] = k]
  /\ pc' = [pc EXCEPT ![p] = "get_read"]
  /\ UNCHANGED <<replVars, now, interval, cache, heap, slice, ret, reaperVars, added>>

\* (mutant) Get refreshes createdAt of the entry it reads (sliding expiration)
GetReadSliding(p) ==
  /\ pc[p] = "get_read"
  /\ LET r == GetResult(cache, key[p])
     IN /\ ret' = [ret EXCEPT ![p] =
                     [op |-> "get", key |-> key[p], ok |-> r.found, data |-> r.data]]
        /\ cache' = IF r.found
                      THEN [cache EXCEPT ![key[p]] = cacheEntry(r.data, now)]
                      ELSE cache
  /\ pc' = [pc EXCEPT ![p] = "get_unlock"]
  /\ UNCHANGED <<replVars, now, interval, mu, heap, key, slice, reaperVars, added>>

\* Get, lines 30-34: look the key up
GetRead(p) ==
  /\ pc[p] = "get_read"
  /\ LET r == GetResult(cache, key[p])
     IN ret' = [ret EXCEPT ![p] =
                  [op |-> "get", key |-> key[p], ok |-> r.found, data |-> r.data]]
  /\ pc' = [pc EXCEPT ![p] = "get_unlock"]
  /\ UNCHANGED <<replVars, now, interval, cache, mu, heap, key, slice, reaperVars, added>>

\* Get, line 28: the deferred c.mu.Unlock(), and the return to a caller that
\* only reads the bytes it got
GetUnlock(p) ==
  /\ pc[p] = "get_unlock"
  /\ mu' = FALSE
  /\ pc' = [pc EXCEPT ![p] = "idle"]
  /\ key' = [key EXCEPT ![p] = ""]
  /\ ret' = [ret EXCEPT ![p] = NoRet]
  /\ heap' = Collect(heap, cache, slice, ret')
  /\ UNCHANGED <<replVars, now, interval, cache, slice, reaperVars, added>>

\* ---------------------------------------------------------------- reaper
\* (mutant) the loop sweeps once before it waits for the first tick
ReapStartSweepFirst ==
  /\ rpc = "start"
  /\ rpc' = "lock"
  /\ nextTick' = now + interval
  /\ UNCHANGED <<replVars, now, interval, cache, mu, heap, callerVars, todo, tickC, added>>

\* reapLoop, line 39: the goroutine starts and makes its ticker
ReapStart ==
  /\ rpc = "start"
  /\ rpc' = "recv"
  /\ nextTick' = now + interval
  /\ UNCHANGED <<replVars, now, interval, cache, mu, heap, callerVars, todo, tickC, added>>

\* reapLoop, line 42: receive a tick from ticker.C
ReapRecv ==
  /\ rpc = "recv"
  /\ tickC = 1
  /\ tickC' = 0
  /\ rpc' = "lock"
  /\ UNCHANGED <<replVars, now, interval, cache, mu, heap, callerVars, todo, nextTick, added>>

\* (mutant) reap does not take the mutex
ReapLockNoMutex ==
  /\ rpc = "lock"
  /\ mu' = TRUE
  /\ todo' = DOMAIN cache
  /\ rpc' = "scan"
  /\ UNCHANGED <<replVars, now, interval, cache, heap, callerVars, nextTick, tickC, added>>

\* reap, line 49: c.mu.Lock(), then the range loop begins over the map
ReapLock ==
  /\ rpc = "lock"
  /\ mu = FALSE
  /\ mu' = TRUE
  /\ todo' = DOMAIN cache
  /\ rpc' = "scan"
  /\ UNCHANGED <<replVars, now, interval, cache, heap, callerVars, nextTick, tickC, added>>

\* (mutant) the loop stops at the first entry it deletes
ReapVisitBreak ==
  /\ rpc = "scan"
  /\ \E k \in todo :
       IF IsStale(cache[k], now, interval)
         THEN /\ cache' = MapDelete(cache, k)
              /\ added' = [added EXCEPT ![k] = SweptAway]
              /\ todo' = {}
         ELSE /\ UNCHANGED <<cache, added>>
              /\ todo' = todo \ {k}
  /\ heap' = Collect(heap, cache', slice, ret)
  /\ UNCHANGED <<replVars, now, interval, mu, callerVars, rpc, nextTick, tickC>>

\* reap, lines 52-56: one iteration of the range loop, in any order
ReapVisit ==
  /\ rpc = "scan"
  /\ \E k \in todo :
       /\ IF IsStale(cache[k], now, interval)
            THEN /\ cache' = MapDelete(cache, k)
                 /\ added' = [added EXCEPT ![k] = SweptAway]
            ELSE UNCHANGED <<cache, added>>
       /\ todo' = todo \ {k}
  /\ heap' = Collect(heap, cache', slice, ret)
  /\ UNCHANGED <<replVars, now, interval, mu, callerVars, rpc, nextTick, tickC>>

\* reap, line 50: the loop is over, the deferred c.mu.Unlock()
ReapUnlock ==
  /\ rpc = "scan"
  /\ todo = {}
  /\ mu' = FALSE
  /\ rpc' = "recv"
  /\ UNCHANGED <<replVars, now, interval, cache, heap, callerVars, todo, nextTick, tickC, added>>

\* ----------------------------------------------------------------- clock
\* the sweep of the last tick is over and the reaper waits for the next one
ReaperIdle == rpc = "recv" /\ tickC = 0

\* time passes; at nextTick the ticker sends on ticker.C, or drops the tick
\* when the buffered one was not received yet
Advance ==
  /\ now' = now + 1
  /\ IF rpc # "start" /\ now' = nextTick
       THEN /\ tickC' = 1
            /\ nextTick' = nextTick + interval
       ELSE UNCHANGED <<tickC, nextTick>>
  /\ UNCHANGED <<replVars, interval, cache, mu, heap, callerVars, rpc, todo, added>>

Tick == now < MaxTime /\ Advance

\* time passes with every sweep on schedule: the reaper has made its ticker
\* and has finished the sweep of every tick sent so far
TickOnSchedule == ReaperIdle /\ now < MaxTimeOnSchedule /\ Advance

\* ------------------------------------------------------------------ Spec
Next ==
  \/ \E p \in Callers : AddLock(p)
  \/ \E p \in Callers : AddCheck(p)
  \/ \E p \in Callers : AddStore(p)
  \/ \E p \in Callers : AddUnlock(p)
  \/ \E p \in Callers : GetLock(p)
  \/ \E p \in Callers : GetRead(p)
  \/ \E p \in Callers : GetUnlock(p)
  \/ ReapStart
  \/ ReapRecv
  \/ ReapLock
  \/ ReapVisit
  \/ ReapUnlock
  \/ Tick

Spec == Init /\ [][Next]_vars

\* the same cache with its sweeps on schedule
NextOnSchedule ==
  \/ \E p \in Callers : AddLock(p)
  \/ \E p \in Callers : AddCheck(p)
  \/ \E p \in Callers : AddStore(p)
  \/ \E p \in Callers : AddUnlock(p)
  \/ \E p \in Callers : GetLock(p)
  \/ \E p \in Callers : GetRead(p)
  \/ \E p \in Callers : GetUnlock(p)
  \/ ReapStart
  \/ ReapRecv
  \/ ReapLock
  \/ ReapVisit
  \/ ReapUnlock
  \/ TickOnSchedule

SpecOnSchedule == Init /\ [][NextOnSchedule]_vars

\* The Go scheduler runs every runnable goroutine: the reaper and a caller
\* inside Add or Get take their next step, a sync.Mutex hands the lock to a
\* goroutine that keeps waiting for it (starvation mode), and time passes.
\* Callers need not call again.
Fairness ==
  /\ WF_vars(ReapStart)
  /\ WF_vars(ReapRecv)
  /\ SF_vars(ReapLock)
  /\ WF_vars(ReapVisit)
  /\ WF_vars(ReapUnlock)
  /\ WF_vars(TickOnSchedule)
  /\ \A p \in Callers :
       /\ WF_vars(AddCheck(p))
       /\ WF_vars(AddStore(p))
       /\ WF_vars(AddUnlock(p))
       /\ WF_vars(GetRead(p))
       /\ WF_vars(GetUnlock(p))

\* the owner drops its last reference to the cache: no caller is inside a
\* call and none calls again (package pokecache has no Stop or Close to call)
Discard ==
  /\ \A p \in Callers : pc[p] = "idle"
  /\ pc' = [p \in Callers |-> "gone"]
  /\ UNCHANGED <<replVars, now, interval, cache, mu, heap, key, slice, ret, reaperVars, added>>

Discarded == \A p \in Callers : pc[p] = "gone"

\* reapLoop has returned; `for range ticker.C` has no break or return, and
\* nothing stops the ticker or closes its channel
ReaperStopped == rpc = "done"

\* one owner that calls Add and Get and then discards the cache, the reaper
\* with its sweeps on schedule, and fair scheduling
NextFair ==
  \/ AddLock(1)
  \/ AddCheck(1)
  \/ AddStore(1)
  \/ AddUnlock(1)
  \/ GetLock(1)
  \/ GetRead(1)
  \/ GetUnlock(1)
  \/ Discard
  \/ ReapStart
  \/ ReapRecv
  \/ ReapLock
  \/ ReapVisit
  \/ ReapUnlock
  \/ TickOnSchedule

SpecFair == Init /\ [][NextFair]_vars /\ Fairness

\* Time has no end.  Once the cache is discarded and the clock is at the
\* model's horizon, every time in the state is moved back by one interval:
\* no age and no delay until the next tick changes, so the reaper goes on
\* exactly as it would with the clock running on.
Rebase ==
  /\ Discarded
  /\ ReaperIdle
  /\ now = MaxTimeOnSchedule
  /\ now' = now - interval
  /\ nextTick' = nextTick - interval
  /\ cache' = [k \in DOMAIN cache |->
                cacheEntry(cache[k].data, cache[k].createdAt - interval)]
  /\ added' = [k \in Keys |->
                IF added[k].st = "live"
                  THEN AddedAt(added[k].val, added[k].at - interval)
                  ELSE added[k]]
  /\ UNCHANGED <<replVars, interval, mu, heap, callerVars, rpc, todo, tickC>>

\* the owner, the discard and the reaper for ever after
NextDiscard == NextFair \/ Rebase

SpecDiscard == Init /\ [][NextDiscard]_vars /\ Fairness /\ WF_vars(Rebase)

\* ------------------------------------------- callers that keep their slices
\* Nothing in c.Add or c.Get stops a caller from using, after the call, the
\* slice it passed or the slice it got.  SpecAlias adds such callers.

\* the caller calls c.Add(key, value) with the slice it holds
AddLockHeld(p) ==
  /\ pc[p] = "idle"
  /\ slice[p] # Nil
  /\ mu = FALSE
  /\ mu' = TRUE
  /\ \E k \in Keys : key' = [key EXCEPT ![p] = k]
  /\ pc' = [pc EXCEPT ![p] = "add_check"]
  /\ UNCHANGED <<replVars, now, interval, cache, heap, slice, ret, reaperVars, added>>

\* Add, line 11: the deferred unlock, and the return to a caller that keeps
\* the slice it passed
AddUnlockKeep(p) ==
  /\ pc[p] = "add_unlock"
  /\ mu' = FALSE
  /\ pc' = [pc EXCEPT ![p] = "idle"]
  /\ key' = [key EXCEPT ![p] = ""]
  /\ ret' = [ret EXCEPT ![p] = NoRet]
  /\ UNCHANGED <<replVars, now, interval, cache, heap, slice, reaperVars, added>>

\* Get, line 28 and line 34: the deferred unlock, and the return of entry.data
\* to a caller that keeps it
GetUnlockKeep(p) ==
  /\ pc[p] = "get_unlock"
  /\ ret[p].ok
  /\ mu' = FALSE
  /\ pc' = [pc EXCEPT ![p] = "idle"]
  /\ key' = [key EXCEPT ![p] = ""]
  /\ slice' = [slice EXCEPT ![p] = ret[p].data]
  /\ ret' = [ret EXCEPT ![p] = NoRet]
  /\ heap' = Collect(heap, cache, slice', ret')
  /\ UNCHANGED <<replVars, now, interval, cache, reaperVars, added>>

\* the caller writes one byte of the slice it holds: value[i] = b
Mutate(p) ==
  /\ pc[p] = "idle"
  /\ slice[p] # Nil
  /\ \E i \in 1..Len(heap[slice[p]]), b \in Bytes :
       /\ b # heap[slice[p]][i]
       /\ heap' = [heap EXCEPT ![slice[p]][i] = b]
  /\ UNCHANGED <<replVars, now, interval, cache, mu, callerVars, reaperVars, added>>

NextAlias ==
  \/ \E p \in Callers : AddLock(p)
  \/ \E p \in Callers : AddLockHeld(p)
  \/ \E p \in Callers : AddCheck(p)
  \/ \E p \in Callers : AddStore(p)
  \/ \E p \in Callers : AddUnlock(p)
  \/ \E p \in Callers : AddUnlockKeep(p)
  \/ \E p \in Callers : GetLock(p)
  \/ \E p \in Callers : GetRead(p)
  \/ \E p \in Callers : GetUnlock(p)
  \/ \E p \in Callers : GetUnlockKeep(p)
  \/ \E p \in Callers : Mutate(p)

SpecAlias == Init /\ [][NextAlias]_vars

\* ------------------------------------------------- TestReap of cache_test.go
\* cache := NewCache(8 * time.Second)
InitTestReap == NewCache(TestInterval) /\ NewConfig

\* cache.Add("test", []byte("test")), right after NewCache
TestReapAdd ==
  /\ now = 0
  /\ added["test"].st = "never"
  /\ AddLock(1)
  /\ key'[1] = "test"

\* time.Sleep(9 * time.Second), with every sweep on schedule meanwhile
TestReapSleep == now < TestSleep /\ ReaperIdle /\ Advance

\* cache.Get("test"), once the sleep is over
TestReapGet ==
  /\ now = TestSleep
  /\ added["test"].st # "never"
  /\ GetLock(1)
  /\ key'[1] = "test"

NextTestReap ==
  \/ TestReapAdd
  \/ AddCheck(1)
  \/ AddStore(1)
  \/ AddUnlock(1)
  \/ TestReapSleep
  \/ TestReapGet
  \/ GetRead(1)
  \/ GetUnlock(1)
  \/ ReapStart
  \/ ReapRecv
  \/ ReapLock
  \/ ReapVisit
  \/ ReapUnlock

SpecTestReap == InitTestReap /\ [][NextTestReap]_vars

\* --------------------------------------- the API client of internal/pokeapi
\* ListLocations and GetAreaDetails follow the same steps on the cache: Get
\* the url, on a hit that decodes return it, else fetch from the origin, Add
\* the bytes and decode them.  The caller's key is the url, its slice the
\* bytes it fetched, and ret what the last call it made returned.

\* the location-area listing of the origin, page after page
NumPages == 2
PageSeq == <<"/location-area", "/location-area?offset=20", "/location-area?offset=40",
             "/location-area?offset=60">>
Listing == SubSeq(PageSeq, 1, NumPages)
PageURLs == {Listing[i] : i \in 1..NumPages}
PageIndex(url) == CHOOSE i \in 1..NumPages : Listing[i] = url

\* the bodies a GET of the url can yield; none when the request fails, as it
\* always does for the empty url (unsupported protocol scheme "")
Origin(url) ==
  IF url = "" THEN {}
  ELSE IF url \in PageURLs THEN {<<PageIndex(url)>>}
  ELSE Contents

\* json.Unmarshal: an error on input that is not a JSON document (the empty
\* input), else the document decoded
Unmarshal(bs) ==
  IF bs = <<>> THEN [err |-> TRUE, doc |-> 0] ELSE [err |-> FALSE, doc |-> bs[1]]

\* MapResponse.Next and MapResponse.Previous of a decoded page of the
\* listing; a JSON null leaves the Go string empty
MapResponse(doc) ==
  [Next |-> IF doc < NumPages THEN Listing[doc + 1] ELSE "",
   Previous |-> IF doc > 1 THEN Listing[doc - 1] ELSE ""]

\* the backing array io.ReadAll allocates
FreeArray(c, s, r) ==
  LET free == BufIds \ Live(c, s, r)
  IN IF free = {} THEN Nil ELSE CHOOSE x \in free : \A y \in free : x <= y

\* ListLocations lines 12-17, GetAreaDetails line 77: c.cache.Get(url)
ClientCall(p) ==
  /\ slice[p] = Nil
  /\ GetLock(p)

\* (mutant) the client keeps the cache locked while it fetches
ClientGetReturnHoldsLock(p) ==
  /\ pc[p] = "get_unlock"
  /\ mu' = mu
  /\ IF ret[p].ok /\ ~Unmarshal(Content(heap, ret[p].data)).err
       THEN /\ pc' = [pc EXCEPT ![p] = "cl_done"]
            /\ ret' = [ret EXCEPT ![p] =
                         [op |-> "hit", key |-> key[p], ok |-> TRUE, data |-> ret[p].data]]
       ELSE /\ pc' = [pc EXCEPT ![p] = "cl_fetch"]
            /\ ret' = [ret EXCEPT ![p] = NoRet]
  /\ heap' = Collect(heap, cache, slice, ret')
  /\ UNCHANGED <<replVars, now, interval, cache, key, slice, reaperVars, added>>

\* Get returns (line 28, the unlock); lines 17-23 and 77-83: on a hit that
\* decodes, return the cached response, else go on to fetch
ClientGetReturn(p) ==
  /\ pc[p] = "get_unlock"
  /\ mu' = FALSE
  /\ IF ret[p].ok /\ ~Unmarshal(Content(heap, ret[p].data)).err
       THEN /\ pc' = [pc EXCEPT ![p] = "cl_done"]
            /\ ret' = [ret EXCEPT ![p] =
                         [op |-> "hit", key |-> key[p], ok |-> TRUE, data |-> ret[p].data]]
       ELSE /\ pc' = [pc EXCEPT ![p] = "cl_fetch"]
            /\ ret' = [ret EXCEPT ![p] = NoRet]
  /\ heap' = Collect(heap, cache, slice, ret')
  /\ UNCHANGED <<replVars, now, interval, cache, key, slice, reaperVars, added>>

\* lines 25-39 and 84-98: the request, httpClient.Do and io.ReadAll fail
\* and the call returns the error
ClientFetchFails(p) ==
  /\ pc[p] = "cl_fetch"
  /\ pc' = [pc EXCEPT ![p] = "cl_done"]
  /\ ret' = [ret EXCEPT ![p] =
               [op |-> "fetch", key |-> key[p], ok |-> FALSE, data |-> Nil]]
  /\ UNCHANGED <<replVars, now, interval, cache, mu, heap, key, slice, reaperVars, added>>

\* lines 25-41 and 84-100: the body is read without the mutex, then
\* c.cache.Add(url, data), and Add, line 10: c.mu.Lock()
ClientFetch(p) ==
  /\ pc[p] = "cl_fetch"
  /\ mu = FALSE
  /\ mu' = TRUE
  /\ \E body \in Origin(key[p]) :
       LET b == FreeArray(cache, slice, ret)
       IN /\ b # Nil
          /\ heap' = [heap EXCEPT ![b] = body]
          /\ slice' = [slice EXCEPT ![p] = b]
  /\ pc' = [pc EXCEPT ![p] = "add_check"]
  /\ UNCHANGED <<replVars, now, interval, cache, key, ret, reaperVars, added>>

\* (mutant) the client returns the error of Add instead of dropping it
ClientAddReturnFatal(p) ==
  /\ pc[p] = "add_unlock"
  /\ mu' = FALSE
  /\ pc' = [pc EXCEPT ![p] = "cl_done"]
  /\ ret' = [ret EXCEPT ![p] =
               [op |-> IF ret[p].ok THEN "added" ELSE "exists",
                key |-> key[p],
                ok |-> ret[p].ok /\ ~Unmarshal(Content(heap, slice[p])).err,
                data |-> slice[p]]]
  /\ UNCHANGED <<replVars, now, interval, cache, heap, key, slice, reaperVars, added>>

\* Add returns (line 11, the unlock) and its result is dropped; lines 43-49
\* and 102-108: decode the fetched bytes and return the response or the error
ClientAddReturn(p) ==
  /\ pc[p] = "add_unlock"
  /\ mu' = FALSE
  /\ pc' = [pc EXCEPT ![p] = "cl_done"]
  /\ ret' = [ret EXCEPT ![p] =
               [op |-> IF ret[p].ok THEN "added" ELSE "exists",
                key |-> key[p],
                ok |-> ~Unmarshal(Content(heap, slice[p])).err,
                data |-> slice[p]]]
  /\ UNCHANGED <<replVars, now, interval, cache, heap, key, slice, reaperVars, added>>

\* the caller of ListLocations or GetAreaDetails has its response or error
ClientReturn(p) ==
  /\ pc[p] = "cl_done"
  /\ pc' = [pc EXCEPT ![p] = "idle"]
  /\ key' = [key EXCEPT ![p] = ""]
  /\ ret' = [ret EXCEPT ![p] = NoRet]
  /\ slice' = [slice EXCEPT ![p] = Nil]
  /\ heap' = Collect(heap, cache, slice', ret')
  /\ UNCHANGED <<replVars, now, interval, cache, mu, reaperVars, added>>

\* the clock of the client's runs, with every sweep on schedule
MaxTimeClient == 1
TickClient == ReaperIdle /\ now < MaxTimeClient /\ Advance

\* concurrent callers of the client on one cache, with its reaper
NextClient ==
  \/ \E p \in Callers : ClientCall(p)
  \/ \E p \in Callers : GetRead(p)
  \/ \E p \in Callers : ClientGetReturn(p)
  \/ \E p \in Callers : ClientFetchFails(p)
  \/ \E p \in Callers : ClientFetch(p)
  \/ \E p \in Callers : AddCheck(p)
  \/ \E p \in Callers : AddStore(p)
  \/ \E p \in Callers : ClientAddReturn(p)
  \/ \E p \in Callers : ClientReturn(p)
  \/ ReapStart
  \/ ReapRecv
  \/ ReapLock
  \/ ReapVisit
  \/ ReapUnlock
  \/ TickClient

SpecClient == Init /\ [][NextClient]_vars

\* ------------------------------------------------- the map command of main
\* The REPL is one goroutine (caller 1) that runs one command at a time.

\* commandMap, line 64: cfg.pokeapiClient.ListLocations(cfg.nextLocationURL),
\* ListLocations lines 12-17: the url is the first page's when the pointer is
\* nil and the string pointed to otherwise; c.cache.Get(url) and its Lock
CommandMapCall ==
  /\ pc[1] = "idle"
  /\ slice[1] = Nil
  /\ mu = FALSE
  /\ mu' = TRUE
  /\ key' = [key EXCEPT ![1] = IF nextLocationURL.nil THEN Listing[1]
                                ELSE nextLocationURL.val]
  /\ pc' = [pc EXCEPT ![1] = "get_read"]
  /\ UNCHANGED <<replVars, now, interval, cache, heap, slice, ret, reaperVars, added>>

\* commandMap, lines 66-77: on an error return it; else store the locators
\* of the response and print the page
CommandMapReturn ==
  /\ pc[1] = "cl_done"
  /\ IF ret[1].ok
       THEN LET doc == Unmarshal(Content(heap, ret[1].data)).doc
            IN /\ nextLocationURL' = Ptr(MapResponse(doc).Next)
               /\ prevLocationURL' = Ptr(MapResponse(doc).Previous)
               /\ lastShown' = doc
       ELSE UNCHANGED <<nextLocationURL, prevLocationURL, lastShown>>
  /\ cmdRet' = IF ret[1].ok THEN "nil" ELSE "err"
  /\ UNCHANGED <<locateVars, loopVars>>
  /\ pc' = [pc EXCEPT ![1] = "idle"]
  /\ key' = [key EXCEPT ![1] = ""]
  /\ ret' = [ret EXCEPT ![1] = NoRet]
  /\ slice' = [slice EXCEPT ![1] = Nil]
  /\ heap' = Collect(heap, cache, slice', ret')
  /\ UNCHANGED <<now, interval, cache, mu, reaperVars, added>>

NextRepl ==
  \/ CommandMapCall
  \/ GetRead(1)
  \/ ClientGetReturn(1)
  \/ ClientFetchFails(1)
  \/ ClientFetch(1)
  \/ AddCheck(1)
  \/ AddStore(1)
  \/ ClientAddReturn(1)
  \/ CommandMapReturn
  \/ ReapStart
  \/ ReapRecv
  \/ ReapLock
  \/ ReapVisit
  \/ ReapUnlock
  \/ Tick

SpecRepl == Init /\ [][NextRepl]_vars

\* ------------------------------------------ callers that wait for the mutex
\* c.mu.Lock() blocks while another goroutine holds the mutex.  Here the call
\* and the Lock are two steps, so that a caller can be seen waiting.  Two
\* goroutines call Add and Get; what they store does not matter to the
\* mutex, and they store the one value of cache_test.go, []byte("test").
Contenders == {1, 2}
TestValue == <<1>>

\* the caller calls c.Add(key, value) and finds the mutex taken or free; the
\* arguments, which no other goroutine can see before Lock returns, are drawn
\* when it returns
AddCall(p) ==
  /\ pc[p] = "idle"
  /\ slice[p] = Nil
  /\ pc' = [pc EXCEPT ![p] = "add_lock"]
  /\ UNCHANGED <<replVars, now, interval, cache, mu, heap, key, slice, ret, reaperVars, added>>

\* Add, line 10: c.mu.Lock() returns once the mutex is free
AddAcquire(p) ==
  /\ pc[p] = "add_lock"
  /\ mu = FALSE
  /\ mu' = TRUE
  /\ \E k \in Keys, v \in {TestValue} :
       LET b == NewArray(cache, slice, ret, k)
       IN /\ b # Nil
          /\ slice' = [slice EXCEPT ![p] = b]
          /\ heap' = [heap EXCEPT ![b] = v]
          /\ key' = [key EXCEPT ![p] = k]
  /\ pc' = [pc EXCEPT ![p] = "add_check"]
  /\ UNCHANGED <<replVars, now, interval, cache, ret, reaperVars, added>>

\* the caller calls c.Get(key) and finds the mutex taken or free
GetCall(p) ==
  /\ pc[p] = "idle"
  /\ pc' = [pc EXCEPT ![p] = "get_lock"]
  /\ UNCHANGED <<replVars, now, interval, cache, mu, heap, key, slice, ret, reaperVars, added>>

\* Get, line 27: c.mu.Lock() returns once the mutex is free
GetAcquire(p) ==
  /\ pc[p] = "get_lock"
  /\ mu = FALSE
  /\ mu' = TRUE
  /\ \E k \in Keys : key' = [key EXCEPT ![p] = k]
  /\ pc' = [pc EXCEPT ![p] = "get_read"]
  /\ UNCHANGED <<replVars, now, interval, cache, heap, slice, ret, reaperVars, added>>

\* the clock of the runs with waiting callers, with every sweep on schedule
MaxTimeWait == 3
TickWait == ReaperIdle /\ now < MaxTimeWait /\ Advance

\* a step of an operation that holds the mutex or can take it
OpStep ==
  \/ \E p \in Contenders : AddAcquire(p)
  \/ \E p \in Contenders : AddCheck(p)
  \/ \E p \in Contenders : AddStore(p)
  \/ \E p \in Contenders : AddUnlock(p)
  \/ \E p \in Contenders : GetAcquire(p)
  \/ \E p \in Contenders : GetRead(p)
  \/ \E p \in Contenders : GetUnlock(p)
  \/ ReapLock
  \/ ReapVisit
  \/ ReapUnlock

NextWait ==
  \/ \E p \in Contenders : AddCall(p)
  \/ \E p \in Contenders : GetCall(p)
  \/ OpStep
  \/ ReapStart
  \/ ReapRecv
  \/ TickWait

\* the statements of Add and Get between Lock and the return, which wait for
\* nothing: at most one of them is the caller's next statement
CallerStep(p) ==
  \/ AddCheck(p)
  \/ AddStore(p)
  \/ AddUnlock(p)
  \/ GetRead(p)
  \/ GetUnlock(p)

\* the statements of the reaper other than its Lock
ReaperStep == ReapStart \/ ReapRecv \/ ReapVisit \/ ReapUnlock

\* Fair scheduling: every goroutine that can run its next statement runs it;
\* a sync.Mutex hands the lock to a goroutine that keeps waiting for it
\* (starvation mode), so a waiter is not passed over for ever; time passes.
\* Callers need not call again.
FairnessWait ==
  /\ WF_vars(ReaperStep)
  /\ SF_vars(ReapLock)
  /\ WF_vars(TickWait)
  /\ \A p \in Contenders :
       /\ WF_vars(CallerStep(p))
       /\ SF_vars(AddAcquire(p) \/ GetAcquire(p))

SpecWait == Init /\ [][NextWait]_vars /\ FairnessWait

\* ---------------------------------------- the client while entries expire
\* Two goroutines call the client on one cache while the clock runs long
\* enough for the reaper to delete what they stored.
MaxTimeSticky == 3
TickSticky == ReaperIdle /\ now < MaxTimeSticky /\ Advance

NextSticky ==
  \/ \E p \in Contenders : ClientCall(p)
  \/ \E p \in Contenders : GetRead(p)
  \/ \E p \in Contenders : ClientGetReturn(p)
  \/ \E p \in Contenders : ClientFetchFails(p)
  \/ \E p \in Contenders : ClientFetch(p)
  \/ \E p \in Contenders : AddCheck(p)
  \/ \E p \in Contenders : AddStore(p)
  \/ \E p \in Contenders : ClientAddReturn(p)
  \/ \E p \in Contenders : ClientReturn(p)
  \/ ReapStart
  \/ ReapRecv
  \/ ReapLock
  \/ ReapVisit
  \/ ReapUnlock
  \/ TickSticky

SpecSticky == Init /\ [][NextSticky]_vars

\* ------------------------------------------- GetLocationByName of the client
\* MapResult{Name, URL}
MapResult(n, u) == [Name |-> n, URL |-> u]

\* MapResponse.Results of a decoded page of the listing: "d" is listed more
\* than once, on the first page and on the last, "b" on the last page only,
\* "m" on the pages between
Results(doc) ==
  IF doc = 1
    THEN <<MapResult("d", "/location-area/1"), MapResult("d", "/location-area/2")>>
  ELSE IF doc = NumPages
    THEN <<MapResult("d", "/location-area/3"), MapResult("b", "/location-area/4")>>
  ELSE <<MapResult("m", "/location-area/5")>>

\* the names a caller asks for; "z" is not in the listing
LocationNames == {"d", "b", "m", "z"}

\* lines 62-66: the index of the first result with the name, 0 if none
FirstMatch(rs, n) ==
  LET hits == {i \in 1..Len(rs) : rs[i].Name = n}
  IN IF hits = {} THEN 0 ELSE CHOOSE i \in hits : \A j \in hits : i <= j

\* lines 52-53: the call, var pageURL *string
GetLocationByNameCall ==
  /\ pc[1] = "idle"
  /\ located.st # "running"
  /\ \E n \in LocationNames : locationName' = n
  /\ pageURL' = NilPtr
  /\ visited' = << >>
  /\ located' = [st |-> "running", loc |-> NoLocation]
  /\ UNCHANGED <<nextLocationURL, prevLocationURL, lastShown, cmdRet, loopVars>>
  /\ UNCHANGED <<now, interval, cache, mu, heap, callerVars, reaperVars, added>>

\* line 56: c.ListLocations(pageURL); ListLocations lines 12-17: the url is
\* the first page's when pageURL is nil, c.cache.Get(url) and its Lock
LocateList ==
  /\ located.st = "running"
  /\ pc[1] = "idle"
  /\ slice[1] = Nil
  /\ mu = FALSE
  /\ mu' = TRUE
  /\ key' = [key EXCEPT ![1] = IF pageURL.nil THEN Listing[1] ELSE pageURL.val]
  /\ pc' = [pc EXCEPT ![1] = "get_read"]
  /\ UNCHANGED <<replVars, now, interval, cache, heap, slice, ret, reaperVars, added>>

\* (mutant) the loop does not move on to the next page
LocateStepNoAdvance ==
  /\ located.st = "running"
  /\ pc[1] = "cl_done"
  /\ IF ~ret[1].ok
       THEN /\ located' = [st |-> "error", loc |-> NoLocation]
            /\ UNCHANGED <<pageURL, visited>>
       ELSE LET doc == Unmarshal(Content(heap, ret[1].data)).doc
                i == FirstMatch(Results(doc), locationName)
            IN /\ visited' = Append(visited, doc)
               /\ IF i # 0
                    THEN /\ located' = [st |-> "found", loc |-> Results(doc)[i]]
                         /\ UNCHANGED pageURL
                    ELSE IF MapResponse(doc).Next = ""
                    THEN /\ located' = [st |-> "notfound", loc |-> NoLocation]
                         /\ UNCHANGED pageURL
                    ELSE UNCHANGED <<pageURL, located>>
  /\ pc' = [pc EXCEPT ![1] = "idle"]
  /\ key' = [key EXCEPT ![1] = ""]
  /\ ret' = [ret EXCEPT ![1] = NoRet]
  /\ slice' = [slice EXCEPT ![1] = Nil]
  /\ heap' = Collect(heap, cache, slice', ret')
  /\ UNCHANGED <<nextLocationURL, prevLocationURL, lastShown, cmdRet, locationName, loopVars>>
  /\ UNCHANGED <<now, interval, cache, mu, reaperVars, added>>

\* lines 58-72: return the error of ListLocations; else scan the results of
\* the page and return the first with the name; else return "not found"
\* when Next is empty; else go round with pageURL = &locationResp.Next
LocateStep ==
  /\ located.st = "running"
  /\ pc[1] = "cl_done"
  /\ IF ~ret[1].ok
       THEN /\ located' = [st |-> "error", loc |-> NoLocation]
            /\ UNCHANGED <<pageURL, visited>>
       ELSE LET doc == Unmarshal(Content(heap, ret[1].data)).doc
                i == FirstMatch(Results(doc), locationName)
            IN /\ visited' = Append(visited, doc)
               /\ IF i # 0
                    THEN /\ located' = [st |-> "found", loc |-> Results(doc)[i]]
                         /\ UNCHANGED pageURL
                    ELSE IF MapResponse(doc).Next = ""
                    THEN /\ located' = [st |-> "notfound", loc |-> NoLocation]
                         /\ UNCHANGED pageURL
                    ELSE /\ pageURL' = Ptr(MapResponse(doc).Next)
                         /\ UNCHANGED located
  /\ pc' = [pc EXCEPT ![1] = "idle"]
  /\ key' = [key EXCEPT ![1] = ""]
  /\ ret' = [ret EXCEPT ![1] = NoRet]
  /\ slice' = [slice EXCEPT ![1] = Nil]
  /\ heap' = Collect(heap, cache, slice', ret')
  /\ UNCHANGED <<nextLocationURL, prevLocationURL, lastShown, cmdRet, locationName, loopVars>>
  /\ UNCHANGED <<now, interval, cache, mu, reaperVars, added>>

\* the statements of a running GetLocationByName, in ListLocations and in
\* the cache: at most one of them is next, but for a fetch, which yields a
\* body or fails
LocateRun ==
  \/ LocateList
  \/ GetRead(1)
  \/ ClientGetReturn(1)
  \/ ClientFetchFails(1)
  \/ ClientFetch(1)
  \/ AddCheck(1)
  \/ AddStore(1)
  \/ ClientAddReturn(1)
  \/ LocateStep

\* the clock of these runs, with every sweep on schedule
MaxTimeLocate == 3
TickLocate == ReaperIdle /\ now < MaxTimeLocate /\ Advance

NextLocate ==
  \/ GetLocationByNameCall
  \/ LocateRun
  \/ ReapStart
  \/ ReapRecv
  \/ ReapLock
  \/ ReapVisit
  \/ ReapUnlock
  \/ TickLocate

\* Fair scheduling: the goroutine in GetLocationByName runs its next
\* statement, and gets the mutex it waits for; a request returns, with a body
\* or with an error (http.Client has a Timeout); the reaper runs; time passes.
FairnessLocate ==
  /\ SF_vars(LocateRun)
  /\ WF_vars(ReaperStep)
  /\ SF_vars(ReapLock)
  /\ WF_vars(TickLocate)

SpecLocate == Init /\ [][NextLocate]_vars /\ FairnessLocate

\* ------------------------------------------------------ startRepl of main
\* A line is a sequence of words and runs of white space (" ").
IsWord(t) == t # " "

\* cleanInput: strings.Fields(input), the words of the line without the
\* white space before, between and after them
cleanInput(input) == SelectSeq(input, IsWord)

\* getCommands: the keys of the map (mapb is commented out)
CommandNames == {"help", "exit", "map", "explore"}

\* what the user types; at the end of the input reader.Text() is empty
ReplLines ==
  {<< >>, <<" ">>, <<"q">>, <<" ", "q", " ", "help">>, <<"quit">>, <<"help">>,
   <<"map">>, <<"explore">>, <<"explore", " ", "z">>, <<" ", "explore", " ", "b">>,
   <<"exit">>}

\* (mutant) the loop breaks on any word that is not a command
ReplReadBreakOnUnknown ==
  /\ rpl = "prompt"
  /\ \E input \in ReplLines :
       LET words == cleanInput(input)
       IN /\ line' = input
          /\ IF Len(words) = 0
               THEN /\ rpl' = "prompt"
                    /\ printed' = << >>
                    /\ UNCHANGED <<command, args>>
               ELSE IF Head(words) \in CommandNames
               THEN /\ rpl' = "run"
                    /\ command' = Head(words)
                    /\ args' = Tail(words)
                    /\ printed' = << >>
               ELSE /\ rpl' = "ended"
                    /\ printed' = << >>
                    /\ UNCHANGED <<command, args>>
  /\ cmdRet' = "none"
  /\ UNCHANGED <<nextLocationURL, prevLocationURL, lastShown, locateVars>>
  /\ UNCHANGED <<now, interval, cache, mu, heap, callerVars, reaperVars, added>>

\* startRepl, lines 108-133: read a line and split it; skip it when it has
\* no word, break on "q", look the first word up among the commands and call
\* its callback with the other words, or print "Invalid command"
ReplRead ==
  /\ rpl = "prompt"
  /\ \E input \in ReplLines :
       LET words == cleanInput(input)
       IN /\ line' = input
          /\ IF Len(words) = 0
               THEN /\ rpl' = "prompt"
                    /\ printed' = << >>
                    /\ UNCHANGED <<command, args>>
               ELSE IF Head(words) = "q"
               THEN /\ rpl' = "ended"
                    /\ printed' = << >>
                    /\ UNCHANGED <<command, args>>
               ELSE IF Head(words) \in CommandNames
               THEN /\ rpl' = "run"
                    /\ command' = Head(words)
                    /\ args' = Tail(words)
                    /\ printed' = << >>
               ELSE /\ rpl' = "prompt"
                    /\ printed' = <<"Invalid command">>
                    /\ UNCHANGED <<command, args>>
  /\ cmdRet' = "none"
  /\ UNCHANGED <<nextLocationURL, prevLocationURL, lastShown, locateVars>>
  /\ UNCHANGED <<now, interval, cache, mu, heap, callerVars, reaperVars, added>>

\* the callback of the command is running
Running(c) == rpl = "run" /\ command = c /\ cmdRet = "none"

\* commandHelp: prints the help and returns nil
CommandHelp ==
  /\ Running("help")
  /\ cmdRet' = "nil"
  /\ UNCHANGED <<nextLocationURL, prevLocationURL, lastShown, locateVars, loopVars>>
  /\ UNCHANGED <<now, interval, cache, mu, heap, callerVars, reaperVars, added>>

\* commandExit is named in getCommands ("Exit the Pokedex") and its body is
\* not among the sources: it ends the process, or returns as a callback does
CommandExit ==
  /\ Running("exit")
  /\ \/ rpl' = "exited" /\ UNCHANGED cmdRet
     \/ cmdRet' \in {"nil", "err"} /\ UNCHANGED rpl
  /\ UNCHANGED <<nextLocationURL, prevLocationURL, lastShown, locateVars>>
  /\ UNCHANGED <<line, command, args, printed>>
  /\ UNCHANGED <<now, interval, cache, mu, heap, callerVars, reaperVars, added>>

\* the callback commandMap, called by the loop
ReplMapCall == Running("map") /\ CommandMapCall
ReplMapReturn == Running("map") /\ CommandMapReturn

\* commandExplore, lines 9-11: no location name, return the error
CommandExploreNoArgs ==
  /\ Running("explore")
  /\ Len(args) = 0
  /\ cmdRet' = "err"
  /\ UNCHANGED <<nextLocationURL, prevLocationURL, lastShown, locateVars, loopVars>>
  /\ UNCHANGED <<now, interval, cache, mu, heap, callerVars, reaperVars, added>>

\* commandExplore, lines 13-15: GetLocationByName(args[0])
CommandExploreCall ==
  /\ Running("explore")
  /\ Len(args) > 0
  /\ located.st = "none"
  /\ GetLocationByNameCall
  /\ locationName' = args[1]

\* commandExplore, lines 17-19: return the error of GetLocationByName
CommandExploreFail ==
  /\ Running("explore")
  /\ located.st \in {"notfound", "error"}
  /\ cmdRet' = "err"
  /\ UNCHANGED <<nextLocationURL, prevLocationURL, lastShown, locateVars, loopVars>>
  /\ UNCHANGED <<now, interval, cache, mu, heap, callerVars, reaperVars, added>>

\* commandExplore, lines 21-28: GetAreaDetails(location.URL); GetAreaDetails
\* line 77: c.cache.Get(areaURL) and its Lock
CommandExploreArea ==
  /\ Running("explore")
  /\ located.st = "found"
  /\ pc[1] = "idle"
  /\ slice[1] = Nil
  /\ mu = FALSE
  /\ mu' = TRUE
  /\ key' = [key EXCEPT ![1] = located.loc.URL]
  /\ pc' = [pc EXCEPT ![1] = "get_read"]
  /\ UNCHANGED <<replVars, now, interval, cache, heap, slice, ret, reaperVars, added>>

\* commandExplore, lines 30-40: return the error of GetAreaDetails, or print
\* the area and return nil
CommandExploreReturn ==
  /\ Running("explore")
  /\ located.st = "found"
  /\ pc[1] = "cl_done"
  /\ cmdRet' = IF ret[1].ok THEN "nil" ELSE "err"
  /\ pc' = [pc EXCEPT ![1] = "idle"]
  /\ key' = [key EXCEPT ![1] = ""]
  /\ ret' = [ret EXCEPT ![1] = NoRet]
  /\ slice' = [slice EXCEPT ![1] = Nil]
  /\ heap' = Collect(heap, cache, slice', ret')
  /\ UNCHANGED <<nextLocationURL, prevLocationURL, lastShown, locateVars, loopVars>>
  /\ UNCHANGED <<now, interval, cache, mu, reaperVars, added>>

\* startRepl, lines 126-136: the callback has returned; print its error if
\* it returned one, print the command, and go round the loop
ReplAfter ==
  /\ rpl = "run"
  /\ cmdRet # "none"
  /\ printed' = IF cmdRet = "err"
                  THEN <<"Error executing command:", "Your command is ">>
                  ELSE <<"Your command is ">>
  /\ rpl' = "prompt"
  /\ locationName' = ""
  /\ pageURL' = NilPtr
  /\ visited' = << >>
  /\ located' = [st |-> "none", loc |-> NoLocation]
  /\ command' = ""
  /\ args' = << >>
  /\ UNCHANGED <<nextLocationURL, prevLocationURL, lastShown, cmdRet, line>>
  /\ UNCHANGED <<now, interval, cache, mu, heap, callerVars, reaperVars, added>>

\* the clock of the REPL's runs, with every sweep on schedule
MaxTimeRepl == 1
TickRepl == ReaperIdle /\ now < MaxTimeRepl /\ Advance

\* main: the REPL on the one goroutine that runs the commands, and the reaper
NextStartRepl ==
  \/ ReplRead
  \/ CommandHelp
  \/ CommandExit
  \/ ReplMapCall
  \/ ReplMapReturn
  \/ CommandExploreNoArgs
  \/ CommandExploreCall
  \/ (Running("explore") /\ LocateList)
  \/ (Running("explore") /\ LocateStep)
  \/ CommandExploreFail
  \/ CommandExploreArea
  \/ CommandExploreReturn
  \/ GetRead(1)
  \/ ClientGetReturn(1)
  \/ ClientFetchFails(1)
  \/ ClientFetch(1)
  \/ AddCheck(1)
  \/ AddStore(1)
  \/ ClientAddReturn(1)
  \/ ReplAfter
  \/ ReapStart
  \/ ReapRecv
  \/ ReapLock
  \/ ReapVisit
  \/ ReapUnlock
  \/ TickRepl

SpecStartRepl == Init /\ [][NextStartRepl]_vars

\* ================================================================ claims
StepAddCheck(p) == pc[p] = "add_check" /\ pc'[p] # "add_check"
StepAddStore(p) == pc[p] = "add_store" /\ pc'[p] = "add_unlock"
StepAddUnlock(p) == pc[p] = "add_unlock" /\ pc'[p] = "idle"

\* C1 - write-then-read: in the state an Add(k, v) that returns nil leaves
\* behind, Get(k) reports k found with the bytes v had when it was passed.
C1_WriteThenRead ==
  [][\A p \in Callers :
       StepAddStore(p) =>
         LET r == GetResult(cache', key[p])
         IN /\ ret'[p].op = "add" /\ ret'[p].ok
            /\ r.found
            /\ Content(heap', r.data) = Content(heap, slice[p])]_vars

\* a Get that ran at the very time of the Add of a non-empty value returned it
C1_Witness ==
  \E p \in Callers :
    /\ pc[p] = "get_unlock" /\ ret[p].ok
    /\ added[key[p]].st = "live" /\ added[key[p]].at = now
    /\ added[key[p]].val # <<>>
    /\ Content(heap, ret[p].data) = added[key[p]].val

\* C2 - no overwrite: an Add on a key that is in the map, fresh or stale,
\* returns the error and leaves the entry as it was (data and createdAt), so
\* that Get still returns the bytes of the Add that succeeded; the rest of
\* the call (the unlock and the return) does not touch the map either.
C2_NoOverwrite ==
  [][\A p \in Callers :
       /\ (StepAddCheck(p) /\ key[p] \in DOMAIN cache) =>
            /\ pc'[p] = "add_unlock"
            /\ ret'[p].op = "add" /\ ~ret'[p].ok
            /\ cache' = cache
            /\ heap' = heap
            /\ LET r == GetResult(cache', key[p])
               IN r.found /\ Content(heap', r.data) = added[key[p]].val
       /\ StepAddUnlock(p) =>
            /\ cache' = cache
            /\ \A k \in DOMAIN cache :
                 Content(heap', cache'[k].data) = Content(heap, cache[k].data)]_vars

\* an Add of other bytes was refused on a stale entry that no sweep removed yet
C2_Witness ==
  \E p \in Callers :
    /\ pc[p] = "add_unlock" /\ ret[p].op = "add" /\ ~ret[p].ok
    /\ key[p] \in DOMAIN cache
    /\ IsStale(cache[key[p]], now, interval)
    /\ Content(heap, slice[p]) # Content(heap, cache[key[p]].data)

\* C3 - miss on unknown key: a Get of a key that no Add has stored, or that a
\* sweep has deleted since its last Add, returns (nil, false).
C3_MissOnUnknownKey ==
  \A p \in Callers :
    (pc[p] = "get_unlock" /\ added[key[p]].st # "live") =>
      /\ ret[p].op = "get"
      /\ ~ret[p].ok
      /\ ret[p].data = Nil

\* a Get missed a key that had been added and then swept
C3_Witness ==
  \E p \in Callers :
    pc[p] = "get_unlock" /\ added[key[p]].st = "swept" /\ ~ret[p].ok

\* C4 - bounded eviction: with every sweep run at the time of its tick, no
\* entry that was stale at the latest tick is left once that tick's sweep is
\* over, and a key added at time t is not found at any time later than
\* t + 2 * interval.
C4_BoundedEviction ==
  /\ \A k \in Keys :
       (added[k].st = "live" /\ now - added[k].at > 2 * interval) =>
         ~GetResult(cache, k).found
  /\ ReaperIdle =>
       \A k \in DOMAIN cache : ~IsStale(cache[k], nextTick - interval, interval)

\* on schedule, an entry has reached the age of two intervals and is still there
C4_Witness ==
  /\ rpc = "scan"
  /\ \E k \in DOMAIN cache : now - cache[k].createdAt = 2 * interval

\* C5 - expiry after one interval plus a margin (TestReap): with interval 8,
\* "test" added at time 0 and every sweep run at the time of its tick, the
\* Get after the sleep of 9 reports the key not found.
C5_TestReapNotFound ==
  \A p \in Callers :
    (pc[p] = "get_unlock" /\ ret[p].key = "test" /\ now = TestSleep)
      => ~ret[p].ok

\* C6 - concurrency safety: every key whose latest Add returned nil and that
\* no sweep has deleted since is in the map with the bytes and the time of
\* that Add, and a Get of it returns those bytes; an Add changes no entry
\* but that of its own key, a step of a sweep changes no entry but the one
\* it visits, and an entry is deleted only when its age exceeds the interval.
C6_Present ==
  /\ \A k \in Keys :
       added[k].st = "live" =>
         /\ k \in DOMAIN cache
         /\ Content(heap, cache[k].data) = added[k].val
         /\ cache[k].createdAt = added[k].at
  /\ \A k \in DOMAIN cache : added[k].st = "live"
  /\ \A p \in Callers :
       (pc[p] = "get_unlock" /\ added[key[p]].st = "live") =>
         ret[p].ok /\ Content(heap, ret[p].data) = added[key[p]].val

C6_ConcurrencySafety ==
  [][/\ C6_Present'
     /\ \A k \in DOMAIN cache :
          k \notin DOMAIN cache' => now - cache[k].createdAt > interval
     /\ \A p \in Callers :
          StepAddStore(p) =>
            \A k \in Keys \ {key[p]} :
              /\ (k \in DOMAIN cache) = (k \in DOMAIN cache')
              /\ k \in DOMAIN cache =>
                   /\ cache'[k] = cache[k]
                   /\ Content(heap', cache'[k].data) = Content(heap, cache[k].data)
     /\ (rpc = "scan" /\ todo' # todo) =>
          \A k \in Keys \ (todo \ todo') :
            /\ (k \in DOMAIN cache) = (k \in DOMAIN cache')
            /\ k \in DOMAIN cache =>
                 /\ cache'[k] = cache[k]
                 /\ Content(heap', cache'[k].data) = Content(heap, cache[k].data)
    ]_vars

\* a sweep has deleted one key and kept the other, fresh one, while a caller
\* was about to add
C6_Witness ==
  /\ \E k \in Keys : added[k].st = "swept"
  /\ \E k \in DOMAIN cache : ~IsStale(cache[k], now, interval) /\ cache[k].createdAt > 0
  /\ rpc = "scan"

\* C7 - Add atomicity: between the exists check of an Add and its insert (or
\* its return of the error) no other Add and no sweep changes the key: a
\* caller about to insert finds the key still absent, a caller that returns
\* the error finds it still present, and the entry a successful caller leaves
\* is the one it passed; so of the Adds on an absent key only one succeeds.
C7_AddAtomic ==
  \A p \in Callers :
    /\ pc[p] = "add_store" => key[p] \notin DOMAIN cache
    /\ (pc[p] = "add_unlock" /\ ret[p].ok) =>
         /\ key[p] \in DOMAIN cache
         /\ cache[key[p]].data = slice[p]
         /\ \A q \in Callers \ {p} : ~(pc[q] = "add_unlock" /\ key[q] = key[p])
    /\ (pc[p] = "add_unlock" /\ ~ret[p].ok) =>
         /\ key[p] \in DOMAIN cache
         /\ cache[key[p]].data # slice[p]

\* a caller lost the race: its Add was refused on a key another caller's Add
\* stored at that very time
C7_Witness ==
  \E p \in Callers :
    /\ pc[p] = "add_unlock" /\ ~ret[p].ok
    /\ added[key[p]].st = "live" /\ added[key[p]].at = now
    /\ Content(heap, slice[p]) # added[key[p]].val

\* C8 - mutual exclusion: at most one of the callers in Add or Get and the
\* sweep is between its Lock and its Unlock, the mutex is locked exactly
\* then, and every step that reads or writes the map (the exists check, the
\* insert, the lookup, each iteration and delete of the sweep) is taken with
\* the mutex held before and after it.
InCS(p) == pc[p] \in {"add_check", "add_store", "add_unlock", "get_read", "get_unlock"}
Holders == Cardinality({p \in Callers : InCS(p)}) + (IF rpc = "scan" THEN 1 ELSE 0)
C8_Exclusive == Holders <= 1 /\ (mu <=> Holders = 1)

C8_MutualExclusion ==
  [][/\ C8_Exclusive
     /\ C8_Exclusive'
     /\ \A p \in Callers :
          (pc[p] \in {"add_check", "add_store", "get_read"} /\ pc'[p] # pc[p])
            => mu /\ mu'
     /\ (rpc = "scan" /\ todo' # todo) => mu /\ mu'
     /\ cache' # cache => mu /\ mu'
    ]_vars

\* the sweep waits for the mutex a caller holds, and a sweep deletes an entry
\* in the middle of its scan
C8_Witness ==
  /\ rpc = "lock"
  /\ \E p \in Callers : InCS(p)
  /\ \E k \in Keys : added[k].st = "swept"

\* C9 - Get is read-only: no step of a Get (the lock, the lookup, the unlock
\* and return), hit or miss, changes the map: no key is inserted or removed,
\* not even a stale one, and no entry's data or createdAt changes.
C9_GetReadOnly ==
  [][\A p \in Callers :
       (pc'[p] # pc[p] /\ {pc[p], pc'[p]} \cap {"get_read", "get_unlock"} # {}) =>
         /\ cache' = cache
         /\ \A k \in DOMAIN cache :
              Content(heap', cache'[k].data) = Content(heap, cache[k].data)]_vars

\* a Get has found a stale entry, which is still in the map
C9_Witness ==
  \E p \in Callers :
    /\ pc[p] = "get_unlock" /\ ret[p].ok
    /\ key[p] \in DOMAIN cache
    /\ IsStale(cache[key[p]], now, interval)

\* C10 - stored data is immutable and not aliased: a Get of a key returns
\* the bytes the value had when the Add that stored it was called, whatever
\* the callers did since to the slice passed to Add or to a slice an earlier
\* Get returned.
C10_StoredDataImmutable ==
  \A p \in Callers :
    (pc[p] = "get_unlock" /\ ret[p].ok /\ added[key[p]].st = "live") =>
      Content(heap, ret[p].data) = added[key[p]].val

\* C11 - empty input handling: on a cache without the key "", Add("", empty
\* value) passes the exists check and stores the entry, returning nil; from
\* then on the lookup of Get("") reports the key found, with an empty byte
\* sequence.
C11_EmptyInput ==
  [][\A p \in Callers :
       /\ (StepAddCheck(p) /\ key[p] = "" /\ "" \notin DOMAIN cache) =>
            pc'[p] = "add_store"
       /\ (StepAddStore(p) /\ key[p] = "" /\ Content(heap, slice[p]) = <<>>) =>
            /\ ret'[p].op = "add" /\ ret'[p].ok
            /\ GetResult(cache', "").found
            /\ Content(heap', GetResult(cache', "").data) = <<>>
       /\ (pc[p] = "get_read" /\ pc'[p] = "get_unlock" /\ key[p] = ""
             /\ added[""].st = "live" /\ added[""].val = <<>>) =>
            /\ ret'[p].ok
            /\ Content(heap', ret'[p].data) = <<>>]_vars

\* a Get("") has found the empty value that was added under the empty key
C11_Witness ==
  \E p \in Callers :
    /\ pc[p] = "get_unlock" /\ key[p] = "" /\ ret[p].ok
    /\ added[""].st = "live" /\ added[""].val = <<>>
    /\ Content(heap, ret[p].data) = <<>>

\* C16 - sweep postcondition: each iteration of a sweep deletes the entry it
\* visits exactly when its age exceeds the interval, keeps every other entry
\* with its data and createdAt and inserts nothing; a sweep visits every
\* entry, so that at its end (on schedule, no time passing meanwhile) no
\* entry older than the interval is left and every entry of age at most the
\* interval is still there; sweeps begin one such interval after another.
Age(k) == now - cache[k].createdAt

C16_SweepPostcondition ==
  [][/\ (rpc = "lock" /\ rpc' = "scan") =>
          /\ todo' = DOMAIN cache
          /\ now = nextTick - interval
     /\ (rpc = "scan" /\ todo' # todo) =>
          /\ DOMAIN cache' \subseteq DOMAIN cache
          /\ \A k \in todo \ todo' : (k \notin DOMAIN cache') <=> (Age(k) > interval)
          /\ \A k \in DOMAIN cache' :
               /\ cache'[k] = cache[k]
               /\ Content(heap', cache'[k].data) = Content(heap, cache[k].data)
          /\ \A k \in DOMAIN cache \ DOMAIN cache' : k \in todo \ todo'
     /\ rpc = "scan" =>
          /\ todo \subseteq DOMAIN cache
          /\ \A k \in DOMAIN cache \ todo : Age(k) <= interval
          /\ \A k \in Keys :
               (added[k].st = "live" /\ now - added[k].at <= interval) =>
                 k \in DOMAIN cache
     /\ (rpc = "scan" /\ rpc' = "recv") =>
          \A k \in DOMAIN cache' : Age(k) <= interval
    ]_vars

\* a sweep is over: it has deleted one key and kept an entry whose age is
\* exactly the interval
C16_Witness ==
  /\ rpc = "scan" /\ todo = {}
  /\ \E k \in Keys : added[k].st = "swept"
  /\ \E k \in DOMAIN cache : Age(k) = interval

\* C17 - entry lifecycle: a key goes from absent to present only by the
\* insert of an Add (with createdAt the time of the insert, so fresh), from
\* fresh to stale only by time passing, and from present to absent only by
\* a sweep's delete of a stale entry; a fresh entry is never removed, and a
\* stale entry stays stale with its createdAt until it is removed: an Add
\* on it returns the error and leaves createdAt alone.
Absent(c, k) == k \notin DOMAIN c
Fresh(c, k, t) == k \in DOMAIN c /\ t - c[k].createdAt <= interval
Stale(c, k, t) == k \in DOMAIN c /\ t - c[k].createdAt > interval

C17_Lifecycle ==
  [][\A k \in Keys :
       /\ Absent(cache, k) =>
            /\ ~Stale(cache', k, now')
            /\ Fresh(cache', k, now') =>
                 /\ \E p \in Callers : StepAddStore(p) /\ key[p] = k
                 /\ cache'[k].createdAt = now
       /\ Fresh(cache, k, now) =>
            /\ ~Absent(cache', k)
            /\ cache'[k].createdAt = cache[k].createdAt
            /\ Stale(cache', k, now') => now' > now
       /\ Stale(cache, k, now) =>
            /\ ~Fresh(cache', k, now')
            /\ Stale(cache', k, now') => cache'[k].createdAt = cache[k].createdAt
            /\ Absent(cache', k) => rpc = "scan" /\ k \in todo \ todo'
            /\ \A p \in Callers :
                 (StepAddCheck(p) /\ key[p] = k) =>
                   /\ pc'[p] = "add_unlock" /\ ~ret'[p].ok
                   /\ cache' = cache
    ]_vars

\* one key has been added, grown stale and been swept, and an Add on the
\* other key, stale and still in the map, has just been refused
C17_Witness ==
  /\ \E k \in Keys : added[k].st = "swept"
  /\ \E p \in Callers :
       /\ pc[p] = "add_unlock" /\ ret[p].op = "add" /\ ~ret[p].ok
       /\ Stale(cache, key[p], now)

\* C18 - Get does not check age: the lookup of a Get on a key in the map,
\* stale or not, reports it found with its data; with sweeps on schedule, a
\* lookup made once the sweep of every tick so far is over finds no entry
\* whose age has reached 2 * interval.
C18_GetIgnoresAge ==
  [][\A p \in Callers :
       (pc[p] = "get_read" /\ pc'[p] = "get_unlock" /\ key[p] \in DOMAIN cache) =>
         /\ ret'[p].ok
         /\ ret'[p].data = cache[key[p]].data
         /\ Content(heap', ret'[p].data) = added[key[p]].val
         /\ ReaperIdle => Age(key[p]) < 2 * interval
    ]_vars

\* on schedule, a Get has found a stale entry one time unit short of twice
\* the interval
C18_Witness ==
  \E p \in Callers :
    /\ pc[p] = "get_unlock" /\ ret[p].ok
    /\ ReaperIdle
    /\ Stale(cache, key[p], now)
    /\ Age(key[p]) = 2 * interval - 1

\* C19 - Add and sweep on the same key: the two never overlap, so either the
\* Add comes first, is refused on the stale entry and leaves it for the sweep
\* to delete, or the sweep comes first and the Add then stores an entry with
\* createdAt the time of the insert, which is in no running sweep's list and
\* which a later sweep deletes only once its own age exceeds the interval;
\* and a Get returns either the whole value of the latest Add or (nil, false).
C19_AddSweepNoLostUpdate ==
  [][/\ \A p \in Callers :
          /\ (pc[p] \in {"add_check", "add_store"} /\ pc'[p] # pc[p]) =>
               rpc # "scan" /\ rpc' # "scan" /\ todo = {}
          /\ (StepAddCheck(p) /\ Stale(cache, key[p], now)) =>
               /\ ~ret'[p].ok
               /\ cache' = cache
          /\ StepAddStore(p) =>
               /\ added[key[p]].st # "live"
               /\ cache'[key[p]].createdAt = now
               /\ key[p] \notin todo'
               /\ added'[key[p]] = AddedAt(Content(heap, slice[p]), now)
          /\ (pc[p] = "get_read" /\ pc'[p] = "get_unlock") =>
               IF added[key[p]].st = "live"
                 THEN ret'[p].ok /\ Content(heap', ret'[p].data) = added[key[p]].val
                 ELSE ~ret'[p].ok /\ ret'[p].data = Nil
     /\ \A k \in DOMAIN cache :
          k \notin DOMAIN cache' =>
            /\ rpc = "scan" /\ k \in todo
            /\ now - added[k].at > interval
            /\ \A p \in Callers : ~InCS(p)
    ]_vars

\* the sweep came first: it has deleted a key, an Add of that key is about to
\* store its entry, and the next sweep is waiting for the mutex
C19_Witness ==
  /\ rpc = "lock"
  /\ \E p \in Callers : pc[p] = "add_store" /\ added[key[p]].st = "swept"

\* C13 - construction and the sweep schedule: NewCache leaves an empty map,
\* an unlocked mutex and one reaper that has not swept; with sweeps on
\* schedule, no sweep runs before one interval has passed, every sweep begins
\* at a multiple of the interval with the next tick one interval ahead (so
\* consecutive sweeps are one interval apart), and after construction and
\* after every sweep another sweep begins, for as long as the clock runs.
SweepBegins == rpc = "lock" /\ rpc' = "scan"

C13_SweepSchedule ==
  /\ cache = << >> /\ ~mu /\ rpc = "start" /\ todo = {} /\ tickC = 0
  /\ [][/\ SweepBegins =>
             /\ now >= interval
             /\ now % interval = 0
             /\ nextTick = now + interval
        /\ now < interval => rpc \in {"start", "recv"} /\ tickC = 0
        /\ rpc = "scan" => tickC = 0 /\ nextTick = now + interval
       ]_vars
  /\ ((rpc = "start" /\ now + interval <= MaxTimeOnSchedule)
        \/ (ReaperIdle /\ nextTick <= MaxTimeOnSchedule))
       ~> (rpc = "scan")

\* the second sweep has begun, one interval after the first
C13_Witness ==
  /\ rpc = "scan"
  /\ now = 2 * interval
  /\ interval > 1

\* C12 - stoppable background task: once the owner has discarded the cache,
\* the reaper eventually stops running.
C12_ReaperStopsAfterDiscard == Discarded ~> ReaperStopped

\* C14 - cache-aside protocol: the client first calls Get(url); on a hit
\* that decodes it returns the cached response and fetches nothing; on a miss
\* it goes on to fetch, and a fetch that yields a body is followed by
\* Add(url, that body); whatever Add returns, the call returns the decoding
\* of the body it fetched, so AlreadyExists is not fatal.
Decodes(h, b) == ~Unmarshal(Content(h, b)).err

C14_CacheAside ==
  [][\A p \in Callers :
       /\ (pc[p] = "idle" /\ pc'[p] # "idle") =>
            pc'[p] = "get_read" /\ slice'[p] = Nil
       /\ (pc[p] = "get_unlock" /\ pc'[p] # pc[p]) =>
            /\ (ret[p].ok /\ Decodes(heap, ret[p].data)) =>
                 /\ pc'[p] = "cl_done"
                 /\ ret'[p].ok /\ ret'[p].key = key[p]
                 /\ ret'[p].data = cache[key[p]].data
                 /\ Content(heap', ret'[p].data) = Content(heap, cache[key[p]].data)
                 /\ slice'[p] = Nil
            /\ ~ret[p].ok => pc'[p] = "cl_fetch" /\ key'[p] = key[p]
            /\ pc'[p] = "cl_fetch" => ~(ret[p].ok /\ Decodes(heap, ret[p].data))
       /\ (pc[p] = "cl_fetch" /\ pc'[p] # pc[p]) =>
            \/ /\ pc'[p] = "add_check"
               /\ key'[p] = key[p]
               /\ slice'[p] # Nil
               /\ Content(heap', slice'[p]) \in Origin(key[p])
            \/ /\ pc'[p] = "cl_done"
               /\ ~ret'[p].ok
               /\ slice'[p] = Nil
               /\ cache' = cache
       /\ (pc[p] = "add_unlock" /\ pc'[p] # pc[p]) =>
            /\ pc'[p] = "cl_done"
            /\ ret'[p].key = key[p]
            /\ ret'[p].data = slice[p]
            /\ ret'[p].ok <=> Decodes(heap, slice[p])
            /\ Content(heap', slice'[p]) = Content(heap, slice[p])
    ]_vars

\* a call has returned the response it fetched although its Add was refused
\* with AlreadyExists
C14_Witness ==
  \E p \in Callers :
    /\ pc[p] = "cl_done" /\ ret[p].op = "exists" /\ ret[p].ok
    /\ key[p] \in DOMAIN cache
    /\ Content(heap, cache[key[p]].data) # Content(heap, ret[p].data)

\* C20 - no single-flight: the mutex is not held while a caller fetches, so a
\* caller that missed can fetch whoever else is fetching the same url; while
\* no entry can have expired, of the callers that fetched one url at most
\* one has its Add succeed, the cache holds the bytes of the Add that ran
\* first, a refused caller's bytes are not in the cache, and when the entry
\* is that of one of two callers exactly one of the two succeeded; every
\* caller returns the decoding of the bytes it fetched itself.
Fetched(p) == pc[p] = "cl_done" /\ ret[p].op \in {"added", "exists"}

C20_NoSingleFlight ==
  /\ mu <=> ((\E p \in Callers : InCS(p)) \/ rpc = "scan")
  /\ \A p \in Callers :
       /\ (pc[p] = "cl_fetch" /\ ~mu /\ key[p] # "") => ENABLED ClientFetch(p)
       /\ Fetched(p) =>
            /\ ret[p].data = slice[p]
            /\ ret[p].ok <=> Decodes(heap, slice[p])
       /\ (Fetched(p) /\ now <= interval) =>
            /\ key[p] \in DOMAIN cache
            /\ added[key[p]].st = "live"
            /\ Content(heap, cache[key[p]].data) = added[key[p]].val
            /\ (ret[p].op = "added") <=> (cache[key[p]].data = slice[p])
       /\ \A q \in Callers \ {p} :
            (Fetched(p) /\ Fetched(q) /\ key[p] = key[q] /\ now <= interval) =>
              /\ ~(ret[p].op = "added" /\ ret[q].op = "added")
              /\ cache[key[p]].data \in {slice[p], slice[q]} =>
                   (ret[p].op = "added" \/ ret[q].op = "added")

\* two callers missed on one url and fetched different bodies: one Add
\* succeeded, the other was refused, and each returns its own body
C20_Witness ==
  \E p, q \in Callers :
    /\ p # q /\ key[p] = key[q]
    /\ Fetched(p) /\ Fetched(q)
    /\ ret[p].op = "added" /\ ret[q].op = "exists"
    /\ ret[p].ok /\ ret[q].ok
    /\ Content(heap, slice[p]) # Content(heap, slice[q])
    /\ cache[key[p]].data = slice[p]

\* C15 - map gets the next page: the first map asks for the first page of
\* the listing, every map after a successful one asks for the page that
\* follows the page shown last, and also once the last page has been shown a
\* map asks for a page of the listing; a map that fails leaves the stored
\* locators as they were.
C15_MapGetsNextPage ==
  [][/\ (pc[1] = "idle" /\ pc'[1] = "get_read") =>
          /\ key'[1] \in PageURLs
          /\ lastShown = 0 => key'[1] = Listing[1]
          /\ (lastShown > 0 /\ lastShown < NumPages) => key'[1] = Listing[lastShown + 1]
     /\ (pc[1] = "cl_done" /\ pc'[1] = "idle" /\ ~ret[1].ok) =>
          /\ nextLocationURL' = nextLocationURL
          /\ prevLocationURL' = prevLocationURL
    ]_vars

\* C21 - guard release and progress: every Add and Get returns only through
\* its unlock, whatever the path (Add stored, Add refused, Get hit, Get miss),
\* and a sweep ends only through its unlock, deletions or not, so the mutex is
\* locked exactly while one of them is between its Lock and its Unlock; a
\* caller or a sweep that is not waiting for the mutex can always take its
\* next step, and one that waits can take it whenever the mutex is free, so
\* the waiters never wait with no step left to take; and under fair
\* scheduling every Add and Get that was called returns and every sweep that
\* waits for the mutex runs and ends.
Waiting(p) == pc[p] \in {"add_lock", "get_lock"}

C21_NotBlocked ==
  /\ mu <=> ((\E p \in Callers : InCS(p)) \/ rpc = "scan")
  /\ \A p \in Contenders :
       /\ pc[p] = "add_check" => ENABLED AddCheck(p)
       /\ pc[p] = "add_store" => ENABLED AddStore(p)
       /\ pc[p] = "add_unlock" => ENABLED AddUnlock(p)
       /\ pc[p] = "get_read" => ENABLED GetRead(p)
       /\ pc[p] = "get_unlock" => ENABLED GetUnlock(p)
       /\ (pc[p] = "add_lock" /\ ~mu) => ENABLED AddAcquire(p)
       /\ (pc[p] = "get_lock" /\ ~mu) => ENABLED GetAcquire(p)
  /\ (rpc = "lock" /\ ~mu) => ENABLED ReapLock
  /\ rpc = "scan" => ENABLED (ReapVisit \/ ReapUnlock)
  /\ ((\E p \in Callers : pc[p] # "idle") \/ rpc \in {"lock", "scan"})
       => ENABLED OpStep

C21_GuardReleaseAndProgress ==
  /\ [][/\ \A p \in Contenders :
             (pc[p] # "idle" /\ pc'[p] = "idle") =>
               /\ pc[p] \in {"add_unlock", "get_unlock"}
               /\ mu /\ ~mu'
        /\ (rpc = "scan" /\ rpc' # "scan") => rpc' = "recv" /\ mu /\ ~mu'
        /\ (mu /\ ~mu') =>
             \/ \E p \in Callers : InCS(p) /\ pc'[p] = "idle"
             \/ rpc = "scan" /\ rpc' = "recv"
       ]_vars
  /\ []C21_NotBlocked
  /\ \A p \in Contenders : (pc[p] # "idle") ~> (pc[p] = "idle")
  /\ (rpc = "lock") ~> (rpc = "recv")

\* a refused Add is about to return while the other caller and a sweep wait
\* for the mutex, after a sweep that deleted an entry
C21_Witness ==
  /\ rpc = "lock"
  /\ \E k \in Keys : added[k].st = "swept"
  /\ \E p, q \in Contenders :
       /\ pc[p] = "add_unlock" /\ ~ret[p].ok
       /\ Waiting(q)

\* C22 - createdAt: in every reachable state every key in the map has an entry
\* whose createdAt is at most the current time, an entry is inserted with
\* createdAt the time of its insert, and as long as the key stays in the map
\* no step (Add, Get, sweep, time passing) changes its createdAt.
C22_CreatedAt ==
  /\ \A k \in DOMAIN cache : cache[k].createdAt <= now
  /\ [][/\ \A k \in DOMAIN cache' :
             /\ cache'[k].createdAt <= now'
             /\ k \in DOMAIN cache => cache'[k].createdAt = cache[k].createdAt
             /\ k \notin DOMAIN cache => cache'[k].createdAt = now
        /\ now' >= now
       ]_vars

\* an entry has just been inserted, later than time 0, next to a stale entry
\* that has been refused an Add and is still in the map
C22_Witness ==
  /\ \E k \in DOMAIN cache : cache[k].createdAt = now /\ now > 0
  /\ \E p \in Callers :
       /\ pc[p] = "add_unlock" /\ ~ret[p].ok
       /\ IsStale(cache[key[p]], now, interval)
       /\ cache[key[p]].createdAt < now

\* C23 - undecodable responses are cached and stick: the client Adds the
\* bytes it fetched before it decodes them, so a call whose bytes do not
\* decode returns an error and leaves them in the cache; as long as a url's
\* entry does not decode, a Get of the url finds it, the call that found it
\* goes on to fetch, an Add on the url is refused and leaves the entry as it
\* is, and no step changes the entry but a sweep's delete of it once it is
\* stale.
Bad(c, h, k) == k \in DOMAIN c /\ ~Decodes(h, c[k].data)

C23_UndecodableSticks ==
  [][/\ \A p \in Contenders :
          /\ (pc[p] = "add_store" /\ pc'[p] # pc[p] /\ ~Decodes(heap, slice[p])) =>
               Bad(cache', heap', key[p]) /\ cache'[key[p]].data = slice[p]
          /\ (pc[p] = "add_unlock" /\ pc'[p] # pc[p] /\ ~Decodes(heap, slice[p])) =>
               /\ pc'[p] = "cl_done" /\ ~ret'[p].ok
               /\ ret[p].ok => Bad(cache', heap', key[p]) /\ cache'[key[p]].data = slice[p]
          /\ (pc[p] = "get_read" /\ pc'[p] # pc[p] /\ Bad(cache, heap, key[p])) =>
               ret'[p].ok /\ ret'[p].data = cache[key[p]].data
          /\ (pc[p] = "get_unlock" /\ pc'[p] # pc[p]
                /\ ret[p].ok /\ ~Decodes(heap, ret[p].data)) =>
               pc'[p] = "cl_fetch" /\ key'[p] = key[p]
          /\ (StepAddCheck(p) /\ Bad(cache, heap, key[p])) =>
               /\ pc'[p] = "add_unlock" /\ ~ret'[p].ok
               /\ cache' = cache
     /\ \A k \in Keys :
          Bad(cache, heap, k) =>
            \/ /\ Bad(cache', heap', k)
               /\ cache'[k] = cache[k]
            \/ /\ k \notin DOMAIN cache'
               /\ rpc = "scan" /\ k \in todo \ todo'
               /\ IsStale(cache[k], now, interval)
    ]_vars

\* a call has found a stale entry that does not decode, fetched a response
\* that does, had its Add refused and returns its response; the entry is
\* still the one that does not decode
C23_Witness ==
  \E p \in Contenders :
    /\ pc[p] = "cl_done" /\ ret[p].op = "exists" /\ ret[p].ok
    /\ Bad(cache, heap, key[p])
    /\ IsStale(cache[key[p]], now, interval)

\* C24 - GetLocationByName: the call scans the pages of the listing in order
\* from the first, following each page's Next; while it runs no page scanned
\* so far lists the name; it returns the first result with the name on the
\* first page that lists it, returns "not found" only when it has scanned
\* every page up to the one whose Next is empty and none lists the name, and
\* returns the error of ListLocations as soon as a call of it fails; and, the
\* chain of Next locators being finite and acyclic, under fair scheduling
\* every call returns.
Lists(doc, n) == \E i \in 1..Len(Results(doc)) : Results(doc)[i].Name = n

IsFirst(doc, n, loc) ==
  \E i \in 1..Len(Results(doc)) :
    /\ Results(doc)[i] = loc
    /\ loc.Name = n
    /\ \A j \in 1..(i - 1) : Results(doc)[j].Name # n

C24_Scan ==
  /\ \A i \in 1..Len(visited) : visited[i] = i
  /\ Len(visited) <= NumPages
  /\ located.st = "running" =>
       /\ \A i \in 1..Len(visited) : ~Lists(i, locationName)
       /\ Len(visited) < NumPages
       /\ pageURL = IF visited = << >> THEN NilPtr ELSE Ptr(Listing[Len(visited) + 1])
       /\ pc[1] # "idle" =>
            key[1] = Listing[Len(visited) + 1]
  /\ located.st = "found" =>
       /\ visited # << >>
       /\ IsFirst(Len(visited), locationName, located.loc)
       /\ \A i \in 1..(Len(visited) - 1) : ~Lists(i, locationName)
  /\ located.st = "notfound" =>
       /\ Len(visited) = NumPages
       /\ MapResponse(NumPages).Next = ""
       /\ \A i \in 1..NumPages : ~Lists(i, locationName)

C24_GetLocationByName ==
  /\ []C24_Scan
  /\ [][/\ (located.st = "running" /\ pc[1] = "cl_done" /\ pc'[1] # pc[1] /\ ~ret[1].ok) =>
             located'.st = "error" /\ visited' = visited
        /\ (located.st = "running" /\ located'.st = "error") =>
             pc[1] = "cl_done" /\ ~ret[1].ok
        /\ (located.st = "running" /\ pc[1] = "cl_done" /\ pc'[1] # pc[1] /\ ret[1].ok) =>
             /\ located'.st # "error"
             /\ Len(visited') = Len(visited) + 1
       ]_vars
  /\ (located.st = "running") ~> (located.st \in {"found", "notfound", "error"})

\* a call has scanned every page and found the name on the last one, after
\* the results of that page that do not match
C24_Witness ==
  /\ located.st = "found"
  /\ Len(visited) = NumPages
  /\ located.loc = MapResult("b", "/location-area/4")

\* C25 - the REPL keeps running: a line without a word is skipped (nothing
\* is printed, no callback runs, the loop prompts again); a line whose first
\* word is "q" ends the loop, and nothing else does; a first word that names
\* no command prints "Invalid command" and the loop prompts again; a first
\* word that names a command runs its callback, and when the callback
\* returns, with an error (which is printed) or without, the loop prompts
\* again and can read the next line; the only other way the loop stops is
\* the exit command's callback ending the process.
HasWord(l) == \E i \in 1..Len(l) : l[i] # " "

FirstWord(l) ==
  l[CHOOSE i \in 1..Len(l) : l[i] # " " /\ \A j \in 1..(i - 1) : l[j] = " "]

ReadStep == rpl = "prompt" /\ <<loopVars, cmdRet>>' # <<loopVars, cmdRet>>

C25_ReplKeepsRunning ==
  /\ [](rpl = "prompt" => ENABLED ReplRead)
  /\ [][/\ ReadStep =>
             /\ ~HasWord(line') =>
                  rpl' = "prompt" /\ printed' = << >> /\ cmdRet' = "none"
             /\ (HasWord(line') /\ FirstWord(line') = "q") => rpl' = "ended"
             /\ (HasWord(line') /\ FirstWord(line') \notin CommandNames \cup {"q"}) =>
                  rpl' = "prompt" /\ printed' = <<"Invalid command">>
             /\ (HasWord(line') /\ FirstWord(line') \in CommandNames) =>
                  /\ rpl' = "run" /\ cmdRet' = "none"
                  /\ command' = FirstWord(line')
        /\ (rpl = "run" /\ rpl' # "run") =>
             \/ /\ cmdRet = "err" /\ rpl' = "prompt"
                /\ printed' = <<"Error executing command:", "Your command is ">>
             \/ /\ cmdRet = "nil" /\ rpl' = "prompt"
                /\ printed' = <<"Your command is ">>
             \/ /\ cmdRet = "none" /\ command = "exit" /\ rpl' = "exited"
        /\ (rpl # "ended" /\ rpl' = "ended") =>
             rpl = "prompt" /\ HasWord(line') /\ FirstWord(line') = "q"
        /\ rpl \in {"ended", "exited"} => rpl' = rpl
       ]_vars

\* explore of a name that is not listed has scanned every page and failed;
\* the loop has printed the error and prompts again
C25_Witness ==
  /\ rpl = "prompt"
  /\ line = <<"explore", " ", "z">>
  /\ printed = <<"Error executing command:", "Your command is ">>
  /\ Listing[NumPages] \in DOMAIN cache

TypeOK ==
  /\ now \in 0..MaxTime
  /\ interval \in Intervals
  /\ DOMAIN cache \subseteq Keys
  /\ mu \in BOOLEAN
  /\ tickC \in 0..1

=============================================================================
